---- MODULE Spec2Model ----
(***************************************************************************)
(* Model of tiny-ntfy-mcp (src/src/ntfy_mcp/server.py): the tool facade    *)
(* NtfyMcpServer, the bounded queue and background thread of NtfyWorker,   *)
(* and the transport _ntfy_publish.                                        *)
(*                                                                         *)
(* Text is modelled as a sequence of atoms: an atom is a white-space       *)
(* character, a comma, or a chunk of other characters, so that strip(),    *)
(* split() and join() are computed and not assumed.  Python values are     *)
(* tagged records [t |-> "none" | "str" | "int" | "bool" | "list", v].     *)
(***************************************************************************)
EXTENDS Integers, Sequences, FiniteSets, TLC

(* ---------------- bounds of the model ---------------- *)

\* capacity of the worker queue (NtfyWorker.__init__ max_queue, 200 by default)
max_queue == 2
\* number of publish calls that reach enqueue_with_cfg in one behaviour
MaxPublish == 3

(* ---------------- Python values ---------------- *)

None == [t |-> "none", v |-> 0]
Str(s) == [t |-> "str", v |-> s]
Int_(n) == [t |-> "int", v |-> n]
Bool(b) == [t |-> "bool", v |-> b]
List(xs) == [t |-> "list", v |-> xs]

isStr(x) == x.t = "str"
\* isinstance(x, int): bool is a subclass of int
isInt(x) == x.t \in {"int", "bool"}
isList(x) == x.t = "list"

\* the number an int (or bool) stands for
int_value(x) == IF x.t = "bool" THEN (IF x.v THEN 1 ELSE 0) ELSE x.v

\* the characters str.strip() and str.split() take for white space
Blanks == {" ", "\t", "\n"}

RECURSIVE lstrip(_)
lstrip(s) == IF s # <<>> /\ Head(s) \in Blanks THEN lstrip(Tail(s)) ELSE s

RECURSIVE rstrip(_)
rstrip(s) == IF s # <<>> /\ s[Len(s)] \in Blanks THEN rstrip(SubSeq(s, 1, Len(s) - 1)) ELSE s

strip(s) == rstrip(lstrip(s))

\* isinstance(x, str) and x.strip()
nonBlankStr(x) == isStr(x) /\ strip(x.v) # <<>>

Digit(d) ==
  CASE d = 0 -> "0" [] d = 1 -> "1" [] d = 2 -> "2" [] d = 3 -> "3" [] d = 4 -> "4"
    [] d = 5 -> "5" [] d = 6 -> "6" [] d = 7 -> "7" [] d = 8 -> "8" [] OTHER -> "9"

\* str(n) for an int, digit by digit
RECURSIVE itoa(_)
itoa(n) ==
  IF n < 0 THEN <<"-">> \o itoa(0 - n)
  ELSE IF n < 10 THEN <<Digit(n)>>
  ELSE itoa(n \div 10) \o <<Digit(n % 10)>>

\* str(x), and the text an f-string puts for x
py_str(x) ==
  CASE x.t = "str" -> x.v
    [] x.t = "int" -> itoa(x.v)
    [] x.t = "bool" -> IF x.v THEN <<"True">> ELSE <<"False">>
    [] OTHER -> <<"None">>

(* ---------------- tables ---------------- *)

_STATUS_TAG ==
  [progress |-> "loudspeaker", success |-> "heavy_check_mark", warning |-> "warning",
   error |-> "rotating_light", info |-> "information_source"]

_STATUS_PRIORITY ==
  [progress |-> "low", info |-> "default", success |-> "high", warning |-> "high",
   error |-> "urgent"]

PriorityNames == {"1", "2", "3", "4", "5", "min", "low", "default", "high", "max", "urgent"}

(* ---------------- pure helpers of _tool_publish ---------------- *)

\* str.lower() on the atoms the inputs use
lower_atom(c) ==
  CASE c = "ERROR" -> "error" [] c = "MAX" -> "max" [] c = "High" -> "high" [] OTHER -> c

lower(s) == [i \in 1..Len(s) |-> lower_atom(s[i])]

\* server.py:511-512: the status argument, "progress" when absent or blank
eff_status(args) ==
  IF nonBlankStr(args.status) THEN lower(strip(args.status.v)) ELSE <<"progress">>

\* server.py:513: status in _STATUS_TAG
status_ok(st) == Len(st) = 1 /\ st[1] \in DOMAIN _STATUS_TAG

\* server.py:504-505: session is a str that is non-empty after strip()
session_ok(args) == nonBlankStr(args.session)

\* str.split(","): the pieces between the commas
RECURSIVE split_comma(_, _, _)
split_comma(s, i, piece) ==
  IF i > Len(s) THEN <<piece>>
  ELSE IF s[i] = "," THEN <<piece>> \o split_comma(s, i + 1, <<>>)
  ELSE split_comma(s, i + 1, Append(piece, s[i]))

\* the non-blank members of a sequence of texts, stripped
RECURSIVE stripped_non_blank(_, _)
stripped_non_blank(ts, i) ==
  IF i > Len(ts) THEN <<>>
  ELSE (IF strip(ts[i]) # <<>> THEN <<strip(ts[i])>> ELSE <<>>) \o stripped_non_blank(ts, i + 1)

\* server.py:516-526: the tags argument is acceptable
tags_ok(args) ==
  LET tags == args.tags IN
  IF isStr(tags) THEN TRUE
  ELSE IF isList(tags) THEN \A i \in 1..Len(tags.v) : nonBlankStr(tags.v[i])
  ELSE tags = None

\* server.py:516-524: user_tags
user_tags(args) ==
  LET tags == args.tags IN
  IF isStr(tags) THEN stripped_non_blank(split_comma(tags.v, 1, <<>>), 1)
  ELSE IF isList(tags) THEN [i \in 1..Len(tags.v) |-> strip(tags.v[i].v)]
  ELSE <<>>

\* server.py:528-538: the priority argument is acceptable
priority_ok(args) ==
  LET p == args.priority IN
  IF isInt(p) THEN 1 <= int_value(p) /\ int_value(p) <= 5
  ELSE IF nonBlankStr(p)
       THEN LET q == lower(strip(p.v)) IN Len(q) = 1 /\ q[1] \in PriorityNames
       ELSE TRUE

\* a priority that always follows the status, whatever the priority argument
eff_priority_StatusOnly(args) == <<_STATUS_PRIORITY[eff_status(args)[1]]>>

\* server.py:529-538: X-Priority
eff_priority(args) ==
  LET p == args.priority IN
  IF isInt(p) THEN py_str(p)
  ELSE IF nonBlankStr(p) THEN lower(strip(p.v))
  ELSE <<_STATUS_PRIORITY[eff_status(args)[1]]>>

\* server.py:504-538: every check that raises ValueError passes
args_valid(args) ==
  session_ok(args) /\ status_ok(eff_status(args)) /\ tags_ok(args) /\ priority_ok(args)

\* v.strip() if isinstance(v, str) else ""
strip_or_empty(x) == IF isStr(x) THEN strip(x.v) ELSE <<>>

\* server.py:553: "|".join([session, repo, area, branch])
sequence_key(args) ==
  strip(args.session.v) \o <<"|">> \o strip_or_empty(args.repo) \o <<"|">>
    \o strip_or_empty(args.area) \o <<"|">> \o strip_or_empty(args.branch)

\* server.py:544
update_of(args) == ~(args.update = Bool(FALSE))

\* the characters the pattern [^A-Za-z0-9._:/-] of _sanitize_tag matches, among the
\* atoms the inputs use (white space and commas are gone when it is applied)
TagBadChars == {"!", "#", "@", "*"} \cup Blanks \cup {","}

\* "-".join(value.split()): every run of white space becomes one hyphen
RECURSIVE collapse_runs(_, _, _)
collapse_runs(s, i, bad) ==
  IF i > Len(s) THEN <<>>
  ELSE IF s[i] \in bad
       THEN (IF i > 1 /\ s[i - 1] \in bad THEN <<>> ELSE <<"-">>) \o collapse_runs(s, i + 1, bad)
       ELSE <<s[i]>> \o collapse_runs(s, i + 1, bad)

\* the longest tag _sanitize_tag lets through, in characters
TagMaxLen == 64

\* server.py:303-308
_sanitize_tag(value) ==
  LET v1 == collapse_runs(strip(value), 1, Blanks)
      v2 == [i \in 1..Len(v1) |-> IF v1[i] = "," THEN "-" ELSE v1[i]]
      v3 == collapse_runs(v2, 1, TagBadChars)
  IN IF Len(v3) > TagMaxLen THEN SubSeq(v3, 1, TagMaxLen) ELSE v3

\* server.py:540: one context tag, when the value is a non-blank string
context_tag(k, v) == IF nonBlankStr(v) THEN << <<k>> \o _sanitize_tag(v.v) >> ELSE <<>>

\* server.py:540: the context tags repo:, area:, branch:, in this order
context_tags(args) ==
  context_tag("repo:", args.repo) \o context_tag("area:", args.area)
    \o context_tag("branch:", args.branch)

\* list(dict.fromkeys(xs)): first occurrences, in order
first_occurrences(xs) == {i \in 1..Len(xs) : \A j \in 1..(i - 1) : xs[j] # xs[i]}

dedupe(xs) ==
  LET fo == first_occurrences(xs) IN
  [k \in 1..Cardinality(fo) |->
     xs[CHOOSE i \in fo : Cardinality({j \in fo : j < i}) = k - 1]]

\* server.py:541
default_tags(args) == << <<"copilot">>, <<"computer">>, <<_STATUS_TAG[eff_status(args)[1]]>> >>

\* server.py:542
all_tags(args) == dedupe(default_tags(args) \o context_tags(args) \o user_tags(args))

\* sep.join(ts), from the i-th text on
RECURSIVE join_from(_, _, _)
join_from(ts, i, sep) ==
  IF i > Len(ts) THEN <<>>
  ELSE IF i = Len(ts) THEN ts[i]
  ELSE ts[i] \o <<sep>> \o join_from(ts, i + 1, sep)

\* ",".join(tags)
join_comma(ts) == join_from(ts, 1, ",")

\* isinstance(stage, int) and isinstance(total, int)
has_progress(args) == isInt(args.stage) /\ isInt(args.total)

\* server.py:556-559
title_of(args) ==
  IF nonBlankStr(args.title) THEN strip(args.title.v)
  ELSE IF has_progress(args)
       THEN strip(args.session.v) \o <<" (">> \o py_str(args.stage) \o <<"/">>
              \o py_str(args.total) \o <<")">>
       ELSE strip(args.session.v)

\* server.py:564-569: the lines of the default message that are present
message_parts(args) ==
  (IF has_progress(args)
   THEN << <<"Progress: ">> \o py_str(args.stage) \o <<"/">> \o py_str(args.total) >>
   ELSE <<>>)
  \o (IF nonBlankStr(args.result) THEN << <<"Update: ">> \o strip(args.result.v) >> ELSE <<>>)
  \o (IF nonBlankStr(args.details) THEN <<strip(args.details.v)>> ELSE <<>>)
  \o (IF nonBlankStr(args.next) THEN << <<"Next: ">> \o strip(args.next.v) >> ELSE <<>>)

\* a body left empty when the caller gives neither message nor progress, result,
\* details or next
message_of_NoFallback(args) ==
  IF nonBlankStr(args.message) THEN strip(args.message.v)
  ELSE join_from(message_parts(args), 1, "\n")

\* server.py:561-570
message_of(args) ==
  IF nonBlankStr(args.message) THEN strip(args.message.v)
  ELSE IF message_parts(args) # <<>> THEN join_from(message_parts(args), 1, "\n")
  ELSE <<"(no message)">>

\* server.py:586-587: one optional header, when the argument is a non-blank string
optional_header(hdr, v) == IF nonBlankStr(v) THEN {<<hdr, strip(v.v)>>} ELSE {}

\* server.py:572-589: the header mapping, as a set of <<name, value>> pairs
headers_of(args, seq) ==
  {<<"X-Title", title_of(args)>>, <<"X-Priority", eff_priority(args)>>,
   <<"X-Tags", join_comma(all_tags(args))>>}
  \cup (IF update_of(args) /\ seq # <<>> THEN {<<"X-Sequence-ID", seq>>} ELSE {})
  \cup (IF args.markdown = Bool(TRUE) THEN {<<"X-Markdown", <<"yes">> >>} ELSE {})
  \cup optional_header("X-Click", args.click)
  \cup optional_header("X-Actions", args.actions)
  \cup optional_header("X-Icon", args.icon)
  \cup optional_header("X-Attach", args.attach)
  \cup optional_header("X-Filename", args.filename)
  \cup optional_header("X-Email", args.email)
  \cup (IF args.delay # None THEN {<<"X-Delay", strip(py_str(args.delay))>>} ELSE {})

\* server.py:591-601: the configuration the item is sent with
eff_cfg(cfg, args) ==
  IF nonBlankStr(args.topic) /\ strip(args.topic.v) # cfg.topic
  THEN [cfg EXCEPT !.topic = strip(args.topic.v)]
  ELSE cfg

(* ---------------- inputs ---------------- *)

\* a call that gives the session alone
NoArgs ==
  [session |-> Str(<<"b">>), stage |-> None, total |-> None, status |-> None,
   result |-> None, next |-> None, details |-> None, area |-> None, repo |-> None,
   branch |-> None, title |-> None, message |-> None, tags |-> None, priority |-> None,
   update |-> None, sequenceId |-> None, topic |-> None, markdown |-> None, click |-> None,
   actions |-> None, icon |-> None, attach |-> None, filename |-> None, email |-> None,
   delay |-> None]

\* the publish arguments the behaviours draw from
PublishInputs ==
  { NoArgs,
    [NoArgs EXCEPT !.status = Str(<<"ERROR", " ">>), !.topic = Str(<<" ", "t2">>),
                   !.repo = Str(<<"r">>)],
    [NoArgs EXCEPT !.update = Bool(FALSE), !.topic = Str(<<"a", " ", "b">>)],
    [NoArgs EXCEPT !.session = Str(<<" ">>)],
    [NoArgs EXCEPT !.priority = Int_(0)] }

\* secrets.token_urlsafe(8): any token may come out
Tokens == {<<"tokA">>, <<"tokB">>}

\* NtfyConfig: topic, credentials (<<>>: not set) and the dry-run flag
NtfyConfig(topic, token, username, password, dry_run) ==
  [t |-> "cfg", topic |-> topic, token |-> token, username |-> username,
   password |-> password, dry_run |-> dry_run]

\* the configurations _load_ntfy_config can return (None: no NTFY_TOPIC)
Cfg(d) == NtfyConfig(<<"t1">>, <<>>, <<>>, <<>>, d)

\* the environments a process is started in: the forced enable override, the
\* configuration, the forced sequence id
Environments ==
  { [forced |-> "unset", cfg |-> Cfg(FALSE), fsid |-> <<>>],
    [forced |-> "true",  cfg |-> Cfg(FALSE), fsid |-> <<"F">>],
    [forced |-> "unset", cfg |-> Cfg(TRUE),  fsid |-> <<"F">>],
    [forced |-> "false", cfg |-> Cfg(FALSE), fsid |-> <<>>],
    [forced |-> "unset", cfg |-> None,       fsid |-> <<>>] }

(* ---------------- state ---------------- *)

VARIABLES
  enabled_state,       \* NtfyMcpServer._enabled_state
  forced_enabled,      \* _parse_bool(os.getenv("NTFY_MCP_ENABLED")): "unset", "true", "false"
  ntfy_cfg,            \* NtfyMcpServer._ntfy_cfg
  forced_sequence_id,  \* NtfyMcpServer._forced_sequence_id (<<>>: not set)
  sequence_ids,        \* NtfyMcpServer._sequence_ids, a set of <<key, token>> pairs
  q,                   \* NtfyWorker._q
  stop,                \* NtfyWorker._stop
  stats,               \* NtfyWorker._stats
  wpc,                 \* where the worker thread is in _run
  cur,                 \* the item _run holds (cfg, headers, message)
  cpc,                 \* where the calling context is
  result,              \* what the last tool call returned or raised
  nextId,              \* history: publish calls that reached enqueue_with_cfg
  accepted,            \* history: ids whose put_nowait succeeded, in order
  dropped,             \* history: ids whose put_nowait raised queue.Full
  started,             \* history: transport calls, in order: [id, by]
  finished,            \* history: transport calls that returned or raised: [id, out, net]
  discarded,           \* history: ids dequeued and thrown away without a transport call
  last_set             \* history: the last of enable() / disable() called, "none" before

vars == <<enabled_state, forced_enabled, ntfy_cfg, forced_sequence_id, sequence_ids, q, stop,
          stats, wpc, cur, cpc, result, nextId, accepted, dropped, started, finished, discarded,
          last_set>>

facadeVars == <<enabled_state, forced_enabled, ntfy_cfg, forced_sequence_id, sequence_ids,
                last_set>>
workerVars == <<stats, wpc, cur, started, finished, discarded>>
publishHist == <<nextId, accepted, dropped>>

\* the wake-up item close() inserts: (self._cfg, {}, "")
WakeUp == [id |-> 0, cfg |-> ntfy_cfg, headers |-> {}, message |-> <<>>]

NoItem == [id |-> 0, cfg |-> None, headers |-> {}, message |-> <<>>]

NoResult == [tool |-> "none", raised |-> FALSE, isError |-> FALSE, structured |-> {}]

\* DeliveryStats()
DeliveryStats0 ==
  [last_success_at |-> 0, last_error_at |-> 0, last_error |-> "", sent_ok |-> 0, sent_err |-> 0]

\* NtfyMcpServer.__init__ and NtfyWorker.__init__
Init ==
  /\ enabled_state \in BOOLEAN
  /\ \E env \in Environments :
       /\ forced_enabled = env.forced
       /\ ntfy_cfg = env.cfg
       /\ forced_sequence_id = env.fsid
  /\ sequence_ids = {}
  /\ q = <<>>
  /\ stop = FALSE
  /\ stats = DeliveryStats0
  /\ wpc = IF ntfy_cfg = None THEN "none" ELSE "loop"
  /\ cur = NoItem
  /\ cpc = "idle"
  /\ result = NoResult
  /\ nextId = 0
  /\ accepted = <<>>
  /\ dropped = {}
  /\ started = <<>>
  /\ finished = <<>>
  /\ discarded = {}
  /\ last_set = "none"

(* ---------------- the facade ---------------- *)

\* server.py:448-450
_effective_enabled ==
  IF forced_enabled = "unset" THEN enabled_state ELSE forced_enabled = "true"

\* _tool_result(text, structured, is_error=...)
_tool_result(tool, structured, is_error) ==
  [tool |-> tool, raised |-> FALSE, isError |-> is_error, structured |-> structured]

\* the state file written, the flag in memory left as it was
_tool_set_enabled_FileOnly(enabled) ==
  /\ cpc = "idle"
  /\ last_set' = IF enabled THEN "enable" ELSE "disable"
  /\ result' = _tool_result(IF enabled THEN "enable" ELSE "disable", {<<"enabled", enabled>>}, FALSE)
  /\ UNCHANGED <<enabled_state, forced_enabled, ntfy_cfg, forced_sequence_id, sequence_ids, q,
                 stop, cpc>>
  /\ UNCHANGED workerVars
  /\ UNCHANGED publishHist

\* an enable()/disable() pair that flips the flag: each call inverts the state it finds
_tool_set_enabled_Toggle(enabled) ==
  /\ cpc = "idle"
  /\ enabled_state' = ~enabled_state
  /\ last_set' = IF enabled THEN "enable" ELSE "disable"
  /\ result' = _tool_result(IF enabled THEN "enable" ELSE "disable",
                            {<<"enabled", ~enabled_state>>}, FALSE)
  /\ UNCHANGED <<forced_enabled, ntfy_cfg, forced_sequence_id, sequence_ids, q, stop, cpc>>
  /\ UNCHANGED workerVars
  /\ UNCHANGED publishHist

\* server.py:452-455
_tool_set_enabled(enabled) ==
  /\ cpc = "idle"
  /\ enabled_state' = enabled
  /\ last_set' = IF enabled THEN "enable" ELSE "disable"
  /\ result' = _tool_result(IF enabled THEN "enable" ELSE "disable", {<<"enabled", enabled>>}, FALSE)
  /\ UNCHANGED <<forced_enabled, ntfy_cfg, forced_sequence_id, sequence_ids, q, stop, cpc>>
  /\ UNCHANGED workerVars
  /\ UNCHANGED publishHist

\* a status() that starts a new reporting period: the counters go back to zero
_tool_status_ResetsStats ==
  /\ cpc = "idle"
  /\ result' = _tool_result("status",
        {<<"enabled", _effective_enabled>>, <<"configured", ntfy_cfg # None>>,
         <<"sequenceIdForced", forced_sequence_id # <<>> >>,
         <<"sequenceIdCount", Cardinality(sequence_ids)>>}
        \cup (IF ntfy_cfg # None
              THEN {<<"queueSize", Len(q)>>, <<"sentOk", stats.sent_ok>>,
                    <<"sentErr", stats.sent_err>>, <<"lastSuccessAt", stats.last_success_at>>,
                    <<"lastErrorAt", stats.last_error_at>>, <<"lastError", stats.last_error>>}
              ELSE {}),
        FALSE)
  /\ stats' = DeliveryStats0
  /\ UNCHANGED <<q, stop, cpc, wpc, cur, started, finished, discarded>>
  /\ UNCHANGED facadeVars
  /\ UNCHANGED publishHist

\* server.py:457-487
_tool_status ==
  /\ cpc = "idle"
  /\ result' = _tool_result("status",
        {<<"enabled", _effective_enabled>>, <<"configured", ntfy_cfg # None>>,
         <<"sequenceIdForced", forced_sequence_id # <<>> >>,
         <<"sequenceIdCount", Cardinality(sequence_ids)>>}
        \cup (IF ntfy_cfg # None
              THEN {<<"queueSize", Len(q)>>, <<"sentOk", stats.sent_ok>>,
                    <<"sentErr", stats.sent_err>>, <<"lastSuccessAt", stats.last_success_at>>,
                    <<"lastErrorAt", stats.last_error_at>>, <<"lastError", stats.last_error>>}
              ELSE {}),
        FALSE)
  /\ UNCHANGED <<q, stop, cpc>>
  /\ UNCHANGED facadeVars
  /\ UNCHANGED workerVars
  /\ UNCHANGED publishHist

\* server.py:554: the entry of the key in the registry
registry_token(key) == CHOOSE kt \in sequence_ids : kt[1] = key

\* a registry that draws a new token on every call, replacing the key's entry
resolve_sequence_AlwaysFresh(args, tok) ==
  IF ~update_of(args) THEN [seq |-> <<>>, reg |-> sequence_ids]
  ELSE IF nonBlankStr(args.sequenceId) THEN [seq |-> strip(args.sequenceId.v), reg |-> sequence_ids]
  ELSE IF forced_sequence_id # <<>> THEN [seq |-> forced_sequence_id, reg |-> sequence_ids]
  ELSE LET key == sequence_key(args) IN
       [seq |-> tok, reg |-> {kt \in sequence_ids : kt[1] # key} \cup {<<key, tok>>}]

\* a forced id that wins over the explicit sequenceId of the call
resolve_sequence_ForcedFirst(args, tok) ==
  IF ~update_of(args) THEN [seq |-> <<>>, reg |-> sequence_ids]
  ELSE IF forced_sequence_id # <<>> THEN [seq |-> forced_sequence_id, reg |-> sequence_ids]
  ELSE IF nonBlankStr(args.sequenceId) THEN [seq |-> strip(args.sequenceId.v), reg |-> sequence_ids]
  ELSE LET key == sequence_key(args) IN
       IF \E kt \in sequence_ids : kt[1] = key
       THEN [seq |-> registry_token(key)[2], reg |-> sequence_ids]
       ELSE [seq |-> tok, reg |-> sequence_ids \cup {<<key, tok>>}]

\* server.py:544-554: the sequence id of the call (<<>>: none) and the registry after it
resolve_sequence(args, tok) ==
  IF ~update_of(args) THEN [seq |-> <<>>, reg |-> sequence_ids]
  ELSE IF nonBlankStr(args.sequenceId) THEN [seq |-> strip(args.sequenceId.v), reg |-> sequence_ids]
  ELSE IF forced_sequence_id # <<>> THEN [seq |-> forced_sequence_id, reg |-> sequence_ids]
  ELSE LET key == sequence_key(args) IN
       IF \E kt \in sequence_ids : kt[1] = key
       THEN [seq |-> registry_token(key)[2], reg |-> sequence_ids]
       ELSE [seq |-> tok, reg |-> sequence_ids \cup {<<key, tok>>}]

\* a queue.Queue() made without maxsize is never full
q_full_Unbounded == FALSE

\* queue.Queue(maxsize=max_queue).full()
q_full == Len(q) >= max_queue

\* a put that makes room by evicting the oldest item before reporting Full
put_nowait_Evict(item) ==
  IF q_full THEN [full |-> TRUE, q |-> Append(Tail(q), item)]
  ELSE [full |-> FALSE, q |-> Append(q, item)]

\* queue.Queue.put_nowait(item): raises queue.Full, or appends at the tail
put_nowait(item) ==
  IF q_full THEN [full |-> TRUE, q |-> q]
  ELSE [full |-> FALSE, q |-> Append(q, item)]

\* server.py:489-494: the disabled branch
PublishDisabled(args) ==
  /\ ~_effective_enabled
  /\ result' = _tool_result("publish",
        {<<"enabled", FALSE>>, <<"enqueued", FALSE>>, <<"reason", "disabled">>}, FALSE)
  /\ UNCHANGED <<q, stop, cpc>>
  /\ UNCHANGED facadeVars
  /\ UNCHANGED publishHist

\* server.py:496-502: no configuration
PublishNotConfigured(args) ==
  /\ _effective_enabled
  /\ ntfy_cfg = None
  /\ result' = _tool_result("publish", {<<"configured", FALSE>>}, TRUE)
  /\ UNCHANGED <<q, stop, cpc>>
  /\ UNCHANGED facadeVars
  /\ UNCHANGED publishHist

\* the arguments validated before the enabled flag is looked at
PublishInvalid_BeforeEnabledCheck(args) ==
  /\ ntfy_cfg # None
  /\ ~args_valid(args)
  /\ result' = [tool |-> "publish", raised |-> TRUE, isError |-> TRUE, structured |-> {}]
  /\ UNCHANGED <<q, stop, cpc>>
  /\ UNCHANGED facadeVars
  /\ UNCHANGED publishHist

\* the arguments validated before the configuration is looked at
PublishInvalid_BeforeConfigCheck(args) ==
  /\ _effective_enabled
  /\ ~args_valid(args)
  /\ result' = [tool |-> "publish", raised |-> TRUE, isError |-> TRUE, structured |-> {}]
  /\ UNCHANGED <<q, stop, cpc>>
  /\ UNCHANGED facadeVars
  /\ UNCHANGED publishHist

\* the queue looked at before the arguments: with a full queue a publish is dropped
\* whatever its arguments
PublishInvalid_AfterQueueCheck(args) ==
  /\ _effective_enabled
  /\ ntfy_cfg # None
  /\ ~args_valid(args)
  /\ result' = IF q_full
               THEN _tool_result("publish",
                       {<<"enqueued", FALSE>>, <<"reason", "queue_full">>}, TRUE)
               ELSE [tool |-> "publish", raised |-> TRUE, isError |-> TRUE, structured |-> {}]
  /\ UNCHANGED <<q, stop, cpc>>
  /\ UNCHANGED facadeVars
  /\ UNCHANGED publishHist

\* the sequence id resolved before the arguments are checked: a rejected publish
\* leaves its key in the registry
PublishInvalid_RegistersFirst(args) ==
  /\ _effective_enabled
  /\ ntfy_cfg # None
  /\ ~args_valid(args)
  /\ result' = [tool |-> "publish", raised |-> TRUE, isError |-> TRUE, structured |-> {}]
  /\ \E tok \in Tokens : sequence_ids' = resolve_sequence(args, tok).reg
  /\ UNCHANGED <<q, stop, cpc>>
  /\ UNCHANGED <<enabled_state, forced_enabled, ntfy_cfg, forced_sequence_id, last_set>>
  /\ UNCHANGED publishHist

\* server.py:504-538: ValueError
PublishInvalid(args) ==
  /\ _effective_enabled
  /\ ntfy_cfg # None
  /\ ~args_valid(args)
  /\ result' = [tool |-> "publish", raised |-> TRUE, isError |-> TRUE, structured |-> {}]
  /\ UNCHANGED <<q, stop, cpc>>
  /\ UNCHANGED facadeVars
  /\ UNCHANGED publishHist

\* server.py:540-601: the item handed to the worker
build_item(args, seq) ==
  [id |-> nextId + 1, cfg |-> eff_cfg(ntfy_cfg, args), headers |-> headers_of(args, seq),
   message |-> message_of(args)]

\* an enqueue that keeps the call's configuration as the server's own
Enqueue_MutatesBase(reg, item) ==
  /\ sequence_ids' = reg
  /\ nextId' = nextId + 1
  /\ q' = put_nowait(item).q
  /\ ntfy_cfg' = item.cfg
  /\ IF put_nowait(item).full
     THEN /\ result' = _tool_result("publish",
                {<<"enqueued", FALSE>>, <<"reason", "queue_full">>}, TRUE)
          /\ dropped' = dropped \cup {item.id}
          /\ UNCHANGED <<accepted, cpc>>
     ELSE /\ accepted' = Append(accepted, item.id)
          /\ cpc' = "pub_ret"
          /\ UNCHANGED <<result, dropped>>
  /\ UNCHANGED <<enabled_state, forced_enabled, forced_sequence_id, stop, last_set>>

\* a registry written only once the item is in the queue: a dropped publish leaves
\* no entry
Enqueue_RegistersOnAccept(reg, item) ==
  /\ sequence_ids' = IF put_nowait(item).full THEN sequence_ids ELSE reg
  /\ nextId' = nextId + 1
  /\ q' = put_nowait(item).q
  /\ IF put_nowait(item).full
     THEN /\ result' = _tool_result("publish",
                {<<"enqueued", FALSE>>, <<"reason", "queue_full">>}, TRUE)
          /\ dropped' = dropped \cup {item.id}
          /\ UNCHANGED <<accepted, cpc>>
     ELSE /\ accepted' = Append(accepted, item.id)
          /\ cpc' = "pub_ret"
          /\ UNCHANGED <<result, dropped>>
  /\ UNCHANGED <<enabled_state, forced_enabled, ntfy_cfg, forced_sequence_id, stop, last_set>>

\* server.py:554, 603-611: the registry is updated and enqueue_with_cfg called
Enqueue(reg, item) ==
  /\ sequence_ids' = reg
  /\ nextId' = nextId + 1
  /\ q' = put_nowait(item).q
  /\ IF put_nowait(item).full
     THEN /\ result' = _tool_result("publish",
                {<<"enqueued", FALSE>>, <<"reason", "queue_full">>}, TRUE)
          /\ dropped' = dropped \cup {item.id}
          /\ UNCHANGED <<accepted, cpc>>
     ELSE /\ accepted' = Append(accepted, item.id)
          /\ cpc' = "pub_ret"
          /\ UNCHANGED <<result, dropped>>
  /\ UNCHANGED <<enabled_state, forced_enabled, ntfy_cfg, forced_sequence_id, stop, last_set>>

\* server.py:540-611: the item is built, the registry updated, put_nowait called
PublishEnqueue(args) ==
  /\ _effective_enabled
  /\ ntfy_cfg # None
  /\ args_valid(args)
  /\ nextId < MaxPublish
  /\ \E tok \in Tokens :
     \E r \in {resolve_sequence(args, tok)} :
     \E item \in {build_item(args, r.seq)} :
       Enqueue(r.reg, item)

\* server.py:489-611
_tool_publish(args) ==
  /\ cpc = "idle"
  /\ \/ PublishDisabled(args)
     \/ PublishNotConfigured(args)
     \/ PublishInvalid(args)
     \/ PublishEnqueue(args)
  /\ UNCHANGED workerVars

\* a publish that answers only once the worker is out of the transport
PublishReturn_WaitsForWorker ==
  /\ cpc = "pub_ret"
  /\ wpc # "send"
  /\ result' = _tool_result("publish", {<<"enqueued", TRUE>>, <<"queueSize", Len(q)>>}, FALSE)
  /\ cpc' = "idle"
  /\ UNCHANGED <<q, stop>>
  /\ UNCHANGED facadeVars
  /\ UNCHANGED workerVars
  /\ UNCHANGED publishHist

\* server.py:613-616: the accepted result, with the queue size read after the put
PublishReturn ==
  /\ cpc = "pub_ret"
  /\ result' = _tool_result("publish", {<<"enqueued", TRUE>>, <<"queueSize", Len(q)>>}, FALSE)
  /\ cpc' = "idle"
  /\ UNCHANGED <<q, stop>>
  /\ UNCHANGED facadeVars
  /\ UNCHANGED workerVars
  /\ UNCHANGED publishHist

(* ---------------- the transport ---------------- *)

\* what urlopen can raise that is a urllib.error.URLError, a TimeoutError or an OSError
HandledErrors == {"URLError", "TimeoutError", "OSError"}

\* what it can raise that is none of these: http.client.HTTPException (InvalidURL,
\* BadStatusLine, ...) and ValueError (a header value with a line break)
UnhandledErrors == {"InvalidURL", "BadStatusLine", "ValueError"}

\* white space inside the request path: http.client rejects the URL before any I/O
has_blank(s) == \E i \in 1..Len(s) : s[i] \in Blanks

\* a header value with a line break: http.client rejects it before any I/O
bad_header(item) == \E h \in item.headers : \E i \in 1..Len(h[2]) : h[2][i] = "\n"

\* base64.b64encode(raw).decode("ascii"), kept symbolic: the encoded text of raw
b64encode(raw) == <<"b64(">> \o raw \o <<")">>

\* server.py:284-290 (<<>>: None)
_auth_header(cfg) ==
  IF cfg.token # <<>> THEN <<"Bearer ">> \o cfg.token
  ELSE IF cfg.username # <<>> /\ cfg.password # <<>>
       THEN <<"Basic ">> \o b64encode(cfg.username \o <<":">> \o cfg.password)
       ELSE <<>>

\* the atoms that stand for characters outside latin-1
NonLatin1 == {"\\u2713"}

\* server.py:293-300: the value as it is if it encodes as latin-1, RFC 2047 otherwise
_http_header_value(value) ==
  IF \E i \in 1..Len(value) : value[i] \in NonLatin1
  THEN <<"=?utf-8?b?">> \o b64encode(value) \o <<"?=">>
  ELSE value

\* server.py:325-329: the fixed headers, under the caller's
base_headers ==
  {<<"User-Agent", <<"tiny-ntfy-mcp/0.1.0">> >>,
   <<"Content-Type", <<"text/plain; charset=utf-8">> >>}

\* server.py:331: headers.pop("Authorization", None)
pop_authorization(headers) == {h \in headers : h[1] # "Authorization"}

\* server.py:325-335: the mapping handed to urllib.request.Request
request_headers(cfg, headers) ==
  LET merged == {b \in base_headers : ~\E h \in headers : h[1] = b[1]} \cup headers
      popped == pop_authorization(merged)
      authed == IF _auth_header(cfg) # <<>>
                THEN popped \cup {<<"Authorization", _auth_header(cfg)>>}
                ELSE popped
  IN {<<h[1], _http_header_value(h[2])>> : h \in authed}

\* str.capitalize() on the header names in use: Request.add_header stores each header
\* under key.capitalize()
capitalize(name) ==
  CASE name \in {"Authorization", "authorization", "AUTHORIZATION"} -> "Authorization"
    [] name = "User-Agent" -> "User-agent"
    [] name = "Content-Type" -> "Content-type"
    [] name = "X-Title" -> "X-title"
    [] name = "X-Priority" -> "X-priority"
    [] name = "X-Tags" -> "X-tags"
    [] name = "X-Sequence-ID" -> "X-sequence-id"
    [] OTHER -> name

\* the values the request can carry under the capitalized name: Request keeps the last
\* header added under it, the Authorization computed from the configuration being added
\* last, the caller's headers after the fixed ones, in the order of the caller's mapping
sent_values(cfg, headers, name) ==
  LET d == request_headers(cfg, headers)
      same == {h \in d : capitalize(h[1]) = name}
      fromCaller == {h \in same : \E c \in headers : c[1] = h[1]}
  IN IF name = "Authorization" /\ _auth_header(cfg) # <<>>
     THEN {_http_header_value(_auth_header(cfg))}
     ELSE IF fromCaller # {} THEN {h[2] : h \in fromCaller}
     ELSE {h[2] : h \in same}

\* server.py:313-323, 342: urlopen is reached unless the dry-run branch returns first
urlopen_called(item) == ~item.cfg.dry_run

\* a transport that goes to the network in dry-run mode too
_ntfy_publish_NoDryRun(item) ==
  IF has_blank(item.cfg.topic) THEN {"InvalidURL"}
  ELSE IF bad_header(item) THEN {"ValueError"}
  ELSE {"ok", "URLError", "BadStatusLine"}

\* server.py:311-344: the outcomes of _ntfy_publish(cfg, message, headers)
_ntfy_publish(item) ==
  IF item.cfg.dry_run THEN {"ok"}
  ELSE IF has_blank(item.cfg.topic) THEN {"InvalidURL"}
  ELSE IF bad_header(item) THEN {"ValueError"}
  ELSE {"ok", "URLError", "BadStatusLine"}

\* time.time(): a clock that moves with every completed transport call
Now == stats.sent_ok + stats.sent_err + 1

(* ---------------- the worker thread, NtfyWorker._run ---------------- *)

\* server.py:390: while not self._stop.is_set()
WorkerLoop ==
  /\ wpc = "loop"
  /\ wpc' = IF stop THEN "exited" ELSE "get"
  /\ UNCHANGED <<q, stop, cpc, result, stats, cur, started, finished, discarded>>
  /\ UNCHANGED facadeVars
  /\ UNCHANGED publishHist

\* a get that takes the newest item
WorkerGet_Lifo ==
  /\ wpc = "get"
  /\ q # <<>>
  /\ cur' = q[Len(q)]
  /\ q' = SubSeq(q, 1, Len(q) - 1)
  /\ wpc' = "got"
  /\ UNCHANGED <<stop, cpc, result, stats, started, finished, discarded>>
  /\ UNCHANGED facadeVars
  /\ UNCHANGED publishHist

\* server.py:391: self._q.get() blocks until an item is there
WorkerGet ==
  /\ wpc = "get"
  /\ q # <<>>
  /\ cur' = Head(q)
  /\ q' = Tail(q)
  /\ wpc' = "got"
  /\ UNCHANGED <<stop, cpc, result, stats, started, finished, discarded>>
  /\ UNCHANGED facadeVars
  /\ UNCHANGED publishHist

\* a worker that looks at the stop flag only at the head of its loop: an item it has
\* taken from the queue is sent
WorkerCheck_NoStopCheck ==
  /\ wpc = "got"
  /\ IF cur.headers = {} /\ cur.message = <<>>
     THEN /\ wpc' = "loop"
          /\ cur' = NoItem
          /\ UNCHANGED <<started, discarded>>
     ELSE /\ wpc' = "send"
          /\ started' = Append(started, [id |-> cur.id, by |-> "worker"])
          /\ UNCHANGED <<cur, discarded>>
  /\ UNCHANGED <<q, stop, cpc, result, stats, finished>>
  /\ UNCHANGED facadeVars
  /\ UNCHANGED publishHist

\* server.py:392-397: stop check, wake-up item check, then the transport is called
WorkerCheck ==
  /\ wpc = "got"
  /\ IF stop
     THEN /\ wpc' = "exited"
          /\ cur' = NoItem
          /\ discarded' = IF cur.id # 0 THEN discarded \cup {cur.id} ELSE discarded
          /\ UNCHANGED started
     ELSE IF cur.headers = {} /\ cur.message = <<>>
     THEN /\ wpc' = "loop"
          /\ cur' = NoItem
          /\ UNCHANGED <<started, discarded>>
     ELSE /\ wpc' = "send"
          /\ started' = Append(started, [id |-> cur.id, by |-> "worker"])
          /\ UNCHANGED <<cur, discarded>>
  /\ UNCHANGED <<q, stop, cpc, result, stats, finished>>
  /\ UNCHANGED facadeVars
  /\ UNCHANGED publishHist

\* counters that tell consecutive failures: a success clears sent_err
record_outcome_Reset(out) ==
  IF out = "ok"
  THEN [stats EXCEPT !.sent_ok = @ + 1, !.sent_err = 0, !.last_success_at = Now]
  ELSE [stats EXCEPT !.sent_err = @ + 1, !.last_error_at = Now, !.last_error = out]

\* counters of attempts and of failures: sent_ok counts every finished call
record_outcome_Attempts(out) ==
  IF out = "ok"
  THEN [stats EXCEPT !.sent_ok = @ + 1, !.last_success_at = Now]
  ELSE [stats EXCEPT !.sent_ok = @ + 1, !.sent_err = @ + 1, !.last_error_at = Now,
                     !.last_error = out]

\* server.py:398-404: the bookkeeping after the transport call
record_outcome(out) ==
  IF out = "ok"
  THEN [stats EXCEPT !.sent_ok = @ + 1, !.last_success_at = Now]
  ELSE [stats EXCEPT !.sent_err = @ + 1, !.last_error_at = Now, !.last_error = out]

\* a worker that puts a failed item back on the queue
WorkerSend_Retry ==
  /\ wpc = "send"
  /\ \E out \in _ntfy_publish(cur) :
       /\ finished' = Append(finished, [id |-> cur.id, out |-> out, net |-> urlopen_called(cur)])
       /\ IF out = "ok" \/ out \in HandledErrors
          THEN /\ stats' = record_outcome(out)
               /\ wpc' = "loop"
               /\ q' = IF out = "ok" THEN q ELSE put_nowait(cur).q
          ELSE /\ wpc' = "dead"
               /\ UNCHANGED <<stats, q>>
  /\ cur' = NoItem
  /\ UNCHANGED <<stop, cpc, result, started, discarded>>
  /\ UNCHANGED facadeVars
  /\ UNCHANGED publishHist

\* server.py:396-404: _ntfy_publish returns or raises
WorkerSend ==
  /\ wpc = "send"
  /\ \E out \in _ntfy_publish(cur) :
       /\ finished' = Append(finished, [id |-> cur.id, out |-> out, net |-> urlopen_called(cur)])
       /\ IF out = "ok" \/ out \in HandledErrors
          THEN /\ stats' = record_outcome(out)
               /\ wpc' = "loop"
          ELSE \* the exception leaves _run: the thread ends
               /\ wpc' = "dead"
               /\ UNCHANGED stats
  /\ cur' = NoItem
  /\ UNCHANGED <<q, stop, cpc, result, started, discarded>>
  /\ UNCHANGED facadeVars
  /\ UNCHANGED publishHist

(* ---------------- NtfyWorker.close, on the calling context ---------------- *)

\* server.py:379-381: the flush wait ends (queue empty, or the second is over)
CloseWait ==
  /\ cpc = "idle"
  /\ ntfy_cfg # None
  /\ cpc' = "close_stop"
  /\ UNCHANGED <<q, stop, result>>
  /\ UNCHANGED facadeVars
  /\ UNCHANGED workerVars
  /\ UNCHANGED publishHist

\* server.py:382
CloseStop ==
  /\ cpc = "close_stop"
  /\ stop' = TRUE
  /\ cpc' = "close_put"
  /\ UNCHANGED <<q, result>>
  /\ UNCHANGED facadeVars
  /\ UNCHANGED workerVars
  /\ UNCHANGED publishHist

\* a close() that sets the stop flag and joins, without the wake-up item
ClosePut_NoWakeUp ==
  /\ cpc = "close_put"
  /\ cpc' = "close_join"
  /\ UNCHANGED <<q, stop, result>>
  /\ UNCHANGED facadeVars
  /\ UNCHANGED workerVars
  /\ UNCHANGED publishHist

\* server.py:383-386: the wake-up item, unless the queue is full
ClosePut ==
  /\ cpc = "close_put"
  /\ q' = put_nowait(WakeUp).q
  /\ cpc' = "close_join"
  /\ UNCHANGED <<stop, result>>
  /\ UNCHANGED facadeVars
  /\ UNCHANGED workerVars
  /\ UNCHANGED publishHist

\* server.py:387: join(timeout=1.0) returns, the thread over or not; close() is the
\* last call made on the server (server.py:666-669)
CloseJoin ==
  /\ cpc = "close_join"
  /\ cpc' = "closed"
  /\ UNCHANGED <<q, stop, result>>
  /\ UNCHANGED facadeVars
  /\ UNCHANGED workerVars
  /\ UNCHANGED publishHist

(* ---------------- the system ---------------- *)

Next ==
  \/ _tool_set_enabled(TRUE)
  \/ _tool_set_enabled(FALSE)
  \/ _tool_status
  \/ \E args \in PublishInputs : _tool_publish(args)
  \/ PublishReturn
  \/ CloseWait
  \/ CloseStop
  \/ ClosePut
  \/ CloseJoin
  \/ WorkerLoop
  \/ WorkerGet
  \/ WorkerCheck
  \/ WorkerSend

Spec == Init /\ [][Next]_vars

(* ---------------- properties ---------------- *)

\* headers.get(name) of a queued item (<<>>: absent)
header(item, name) ==
  IF \E h \in item.headers : h[1] = name
  THEN (CHOOSE h \in item.headers : h[1] = name)[2]
  ELSE <<>>

in_queue(id) == \E i \in 1..Len(q) : q[i].id = id
was_started(id) == \E i \in 1..Len(started) : started[i].id = id

\* C1: in every reachable state the worker's queue, the wake-up item of close()
\* included, holds at most max_queue items.
C1_QueueBounded == Len(q) <= max_queue

\* the queue is full and one of its items is the wake-up item of close()
C1_Witness == Len(q) = max_queue /\ in_queue(0)

queue_full_result ==
  _tool_result("publish", {<<"enqueued", FALSE>>, <<"reason", "queue_full">>}, TRUE)

\* C2: a publish that reaches the enqueue (enabled, configured, valid arguments) while
\* the queue holds max_queue items returns {enqueued: false, reason: "queue_full"}
\* without raising and without waiting, leaves the queue as it was, and the dropped
\* notification is never queued or handed to the transport afterwards.
C2_FullQueueDrops ==
  /\ [][\A a \in PublishInputs :
          (Len(q) = max_queue /\ _effective_enabled /\ ntfy_cfg # None /\ args_valid(a)
             /\ _tool_publish(a))
          => (result' = queue_full_result /\ ~result'.raised /\ q' = q /\ cpc' = "idle"
                /\ accepted' = accepted)]_vars
  /\ [](\A id \in dropped : ~in_queue(id) /\ ~was_started(id) /\ cur.id # id)

\* a publish was dropped as queue_full, and the queue has drained without it
C2_Witness ==
  /\ dropped # {}
  /\ result = queue_full_result
  /\ q = <<>>
  /\ Len(finished) = Len(accepted)

\* C3: the worker starts deliveries in the order in which their enqueues succeeded,
\* and starts one only when the one before it has finished (succeeded or failed):
\* at most one is in flight, whatever the priorities.
C3_FifoOneAtATime ==
  /\ Len(started) <= Len(accepted)
  /\ \A i \in 1..Len(started) : started[i].id = accepted[i]
  /\ Len(finished) <= Len(started)
  /\ Len(started) <= Len(finished) + 1
  /\ \A i \in 1..Len(finished) : finished[i].id = started[i].id
  /\ (wpc = "send") <=> (Len(started) = Len(finished) + 1)

\* a low-priority item is in flight, after an earlier delivery has finished, while an
\* urgent item enqueued later waits behind it
C3_Witness ==
  /\ wpc = "send"
  /\ Len(finished) >= 1
  /\ header(cur, "X-Priority") = <<"low">>
  /\ q # <<>>
  /\ header(Head(q), "X-Priority") = <<"urgent">>

\* C4: each accepted item is handed to the transport at most once, whether its
\* delivery succeeds or fails.
C4_AtMostOnce ==
  /\ \A i, j \in 1..Len(started) : i # j => started[i].id # started[j].id
  /\ \A id \in 1..nextId : was_started(id) => ~in_queue(id)

\* a delivery failed, one succeeded, and the worker has gone on past both
C4_Witness ==
  /\ \E i \in 1..Len(finished) : finished[i].out \in HandledErrors
  /\ \E i \in 1..Len(finished) : finished[i].out = "ok"
  /\ wpc = "get"

\* the transport call of item id returned, or raised an error the worker records
completed(id) ==
  \E i \in 1..Len(finished) :
    finished[i].id = id /\ (finished[i].out = "ok" \/ finished[i].out \in HandledErrors)

\* C5: every accepted item is eventually picked up and ends Delivered or Failed, its
\* outcome in the statistics. A worker thread that an exception has ended takes no
\* further step, so the claim requires that in such a state no accepted item is left
\* without a recorded outcome.
C5_AcceptedItemsComplete ==
  wpc = "dead" => \A i \in 1..Len(accepted) : completed(accepted[i])

\* the transport call that has just ended raised an error
delivery_failed_step ==
  /\ wpc = "send"
  /\ Len(finished') = Len(finished) + 1
  /\ finished'[Len(finished')].out # "ok"

\* C6: when a delivery fails the worker records it (sent_err up by exactly one, the
\* time and text of the last error set), does not put the item back or try it again,
\* and goes on to the next queued item.
C6_FailureRecordedWorkerGoesOn ==
  [][delivery_failed_step =>
       /\ stats'.sent_err = stats.sent_err + 1
       /\ stats'.sent_ok = stats.sent_ok
       /\ stats'.last_error_at = Now
       /\ stats'.last_error = finished'[Len(finished')].out
       /\ q' = q
       /\ cur' = NoItem
       /\ wpc' = "loop"]_vars

\* C7: whatever error the transport raises for an item (timeout, connection error,
\* protocol error of any kind), it is counted as a delivery failure: sent_err is the
\* number of transport calls that raised, last_error describes the last one, and the
\* worker thread is still alive.
C7_EveryTransportErrorIsAFailure ==
  /\ wpc # "dead"
  /\ stats.sent_err = Cardinality({i \in 1..Len(finished) : finished[i].out # "ok"})
  /\ \A i \in 1..Len(finished) :
       (finished[i].out # "ok" /\ \A j \in (i + 1)..Len(finished) : finished[j].out = "ok")
       => stats.last_error = finished[i].out

\* C8: publish returns its enqueue outcome without waiting for any delivery: its steps
\* can be taken whatever the worker is doing (blocked in the transport, dead, exited),
\* and every transport call is made by the worker thread, never by the calling context.
C8_PublishNeverWaits ==
  /\ cpc = "pub_ret" => ENABLED PublishReturn
  /\ (cpc = "idle" /\ ~_effective_enabled) => \A a \in PublishInputs : ENABLED _tool_publish(a)
  /\ (cpc = "idle" /\ _effective_enabled /\ ntfy_cfg # None /\ nextId < MaxPublish)
       => \A a \in PublishInputs : \A tok \in Tokens :
            args_valid(a)
            => \A r \in {resolve_sequence(a, tok)} : \A item \in {build_item(a, r.seq)} :
                 ENABLED Enqueue(r.reg, item)
  /\ \A i \in 1..Len(started) : started[i].by = "worker"

\* a publish has put its item and is returning while the worker is inside the
\* transport call of an earlier item
C8_Witness ==
  /\ cpc = "pub_ret"
  /\ wpc = "send"
  /\ cur.id < accepted[Len(accepted)]

disabled_result ==
  _tool_result("publish",
     {<<"enabled", FALSE>>, <<"enqueued", FALSE>>, <<"reason", "disabled">>}, FALSE)

\* C9: while the effective-enabled flag is false, publish with any arguments, valid or
\* not, returns {enqueued: false, reason: "disabled"} and leaves the queue, the sequence
\* registry and the statistics (and every other variable) unchanged.
C9_DisabledPublishIsNoop ==
  [][\A a \in PublishInputs :
       (~_effective_enabled /\ _tool_publish(a))
       => /\ result' = disabled_result
          /\ UNCHANGED <<q, sequence_ids, stats, enabled_state, stop, cpc, wpc, cur>>
          /\ UNCHANGED <<nextId, accepted, dropped, started, finished, discarded>>]_vars

\* a publish was answered "disabled" with notifications effectively disabled and a
\* worker that has deliveries behind it
C9_Witness ==
  /\ ~_effective_enabled
  /\ result = disabled_result
  /\ Len(finished) >= 1

\* C10 as claimed: after disable() and until the next enable(), every publish returns
\* {enqueued: false, reason: "disabled"} and enqueues nothing, for every value of the
\* forced enable override.
C10_DisabledAfterDisable_AnyOverride ==
  [][\A a \in PublishInputs :
       (last_set = "disable" /\ _tool_publish(a))
       => (result' = disabled_result /\ q' = q /\ accepted' = accepted)]_vars

\* C10 amended: after disable() and until the next enable(), every publish returns
\* {enqueued: false, reason: "disabled"} and enqueues nothing, provided the forced enable
\* override is unset or false.
C10_DisabledAfterDisable ==
  [][\A a \in PublishInputs :
       (last_set = "disable" /\ forced_enabled # "true" /\ _tool_publish(a))
       => (result' = disabled_result /\ q' = q /\ accepted' = accepted)]_vars

\* disable() was called after items had been accepted, and a publish after it was
\* answered "disabled"
C10_Witness ==
  /\ last_set = "disable"
  /\ forced_enabled = "unset"
  /\ Len(accepted) >= 1
  /\ result = disabled_result

not_configured_result == _tool_result("publish", {<<"configured", FALSE>>}, TRUE)

\* C11: with no configuration and notifications effectively enabled, every publish,
\* whatever its arguments, returns the structured error {configured: false} without
\* raising, and nothing is ever enqueued or delivered: there is no worker, the queue
\* stays empty and no transport call is made.
C11_NotConfiguredIsStructuredError ==
  /\ [][\A a \in PublishInputs :
          (ntfy_cfg = None /\ _effective_enabled /\ _tool_publish(a))
          => (result' = not_configured_result /\ ~result'.raised /\ result'.isError
                /\ q' = q /\ cpc' = "idle")]_vars
  /\ [](ntfy_cfg = None
          => (q = <<>> /\ accepted = <<>> /\ started = <<>> /\ nextId = 0 /\ wpc = "none"))

\* an unconfigured, enabled server answered a publish with {configured: false},
\* after the enabled flag had been set by enable()
C11_Witness ==
  /\ ntfy_cfg = None
  /\ _effective_enabled
  /\ last_set = "enable"
  /\ result = not_configured_result

(* ---------------- the notification builder under richer arguments ---------------- *)

\* the publish arguments the builder behaviours draw from: priorities inside and outside
\* the allowed sets, explicit, blank and absent sequence ids, update false
BuilderInputs ==
  { NoArgs,
    [NoArgs EXCEPT !.priority = Int_(6)],
    [NoArgs EXCEPT !.priority = Int_(3)],
    [NoArgs EXCEPT !.priority = Str(<<"bogus">>)],
    [NoArgs EXCEPT !.priority = Str(<<" ">>)],
    [NoArgs EXCEPT !.priority = Str(<<" ", "MAX">>)],
    [NoArgs EXCEPT !.sequenceId = Str(<<" ", "sid1", " ">>)],
    [NoArgs EXCEPT !.sequenceId = Str(<<" ">>)],
    [NoArgs EXCEPT !.update = Bool(FALSE), !.sequenceId = Str(<<"sid1">>)] }

\* an enabled, configured server, with and without a forced sequence id
InitBuilder ==
  /\ enabled_state = TRUE
  /\ forced_enabled = "unset"
  /\ ntfy_cfg = Cfg(FALSE)
  /\ forced_sequence_id \in {<<>>, <<"F">>}
  /\ sequence_ids = {}
  /\ q = <<>>
  /\ stop = FALSE
  /\ stats = DeliveryStats0
  /\ wpc = "loop"
  /\ cur = NoItem
  /\ cpc = "idle"
  /\ result = NoResult
  /\ nextId = 0
  /\ accepted = <<>>
  /\ dropped = {}
  /\ started = <<>>
  /\ finished = <<>>
  /\ discarded = {}
  /\ last_set = "none"

NextBuilder ==
  \/ \E args \in BuilderInputs : _tool_publish(args)
  \/ PublishReturn
  \/ WorkerLoop
  \/ WorkerGet
  \/ WorkerCheck
  \/ WorkerSend

SpecBuilder == InitBuilder /\ [][NextBuilder]_vars

\* what publish leaves in result when it raises ValueError
invalid_argument_result ==
  [tool |-> "publish", raised |-> TRUE, isError |-> TRUE, structured |-> {}]

\* a priority argument outside the allowed sets: an integer outside 1..5, or a string
\* that, trimmed and lower-cased, is none of the allowed names
priority_outside_allowed(p) ==
  \/ p.t = "int" /\ (p.v < 1 \/ p.v > 5)
  \/ isStr(p) /\ ~(Len(lower(strip(p.v))) = 1 /\ lower(strip(p.v))[1] \in PriorityNames)

\* C12: for every priority argument outside the allowed sets, publish on an enabled,
\* configured server fails with InvalidArgument and enqueues nothing: the queue after
\* the call is the queue before it.
C12_BadPriorityRejected ==
  [][\A a \in BuilderInputs :
       (_effective_enabled /\ ntfy_cfg # None /\ priority_outside_allowed(a.priority)
          /\ _tool_publish(a))
       => (result' = invalid_argument_result /\ q' = q /\ accepted' = accepted)]_vars

(* ---------------- the sequence registry ---------------- *)

\* the publish uses the registry: update is not false, no explicit id, no forced id
uses_registry(a) ==
  update_of(a) /\ ~nonBlankStr(a.sequenceId) /\ forced_sequence_id = <<>>

\* C13: a registry entry, once created, is never changed or removed, a key has one
\* token, and every accepted publish with update not false, no explicit sequenceId and
\* no forced id carries as X-Sequence-ID the registry's token for its (session, repo,
\* area, branch) key: the one the first such publish put there, whatever publishes for
\* other keys, enable/disable calls and worker steps came in between.
C13_SameIdForSameKey ==
  /\ [][\A kt \in sequence_ids : kt \in sequence_ids']_vars
  /\ [](\A k1 \in sequence_ids : \A k2 \in sequence_ids : k1[1] = k2[1] => k1 = k2)
  /\ [][accepted' # accepted
         => \A a \in PublishInputs :
              (uses_registry(a) /\ _tool_publish(a))
              => <<sequence_key(a), header(q'[Len(q')], "X-Sequence-ID")>> \in sequence_ids']_vars

\* two keys are registered, and two publishes for one of them, made before and after a
\* disable()/enable() and a delivery, wait in the queue with the same X-Sequence-ID
C13_Witness ==
  /\ Cardinality(sequence_ids) = 2
  /\ Len(q) = 2
  /\ header(q[1], "X-Sequence-ID") # <<>>
  /\ header(q[1], "X-Sequence-ID") = header(q[2], "X-Sequence-ID")
  /\ header(q[1], "X-Tags") = header(q[2], "X-Tags")
  /\ last_set = "enable"
  /\ Len(finished) >= 1

\* C14: in every reachable state no two distinct keys of the sequence registry map to
\* the same token.
C14_TokensUnique ==
  \A k1 \in sequence_ids : \A k2 \in sequence_ids : k1[2] = k2[2] => k1[1] = k2[1]

has_header(item, name) == \E h \in item.headers : h[1] = name

\* C15: the enqueued item has an X-Sequence-ID header exactly when update is not false,
\* and its value is the trimmed explicit sequenceId if that is non-empty, otherwise the
\* forced id if one is set, otherwise the registry's token for the call's key.
C15_SequenceIdPrecedence ==
  [][accepted' # accepted => \A a \in BuilderInputs :
       _tool_publish(a)
       => LET item == q'[Len(q')]
              sid == header(item, "X-Sequence-ID")
          IN /\ has_header(item, "X-Sequence-ID") <=> ~(a.update = Bool(FALSE))
             /\ has_header(item, "X-Sequence-ID") =>
                  IF isStr(a.sequenceId) /\ strip(a.sequenceId.v) # <<>>
                  THEN sid = strip(a.sequenceId.v) /\ sequence_ids' = sequence_ids
                  ELSE IF forced_sequence_id # <<>>
                  THEN sid = forced_sequence_id /\ sequence_ids' = sequence_ids
                  ELSE /\ <<sequence_key(a), sid>> \in sequence_ids'
                       /\ \A kt \in sequence_ids : kt[1] = sequence_key(a) => kt[2] = sid]_vars

\* with a forced id set, the queue holds a publish that gave an explicit sequenceId,
\* sent with that id trimmed, behind one that gave update false, sent with no id
C15_Witness ==
  /\ forced_sequence_id # <<>>
  /\ Len(q) = 2
  /\ ~has_header(q[1], "X-Sequence-ID")
  /\ header(q[2], "X-Sequence-ID") = <<"sid1">>
  /\ Len(accepted) = 3

(* ---------------- the per-call topic override ---------------- *)

\* the topic a call asks for: its trimmed topic argument, the configured one without it
call_topic(a) == IF isStr(a.topic) /\ strip(a.topic.v) # <<>> THEN strip(a.topic.v) ELSE ntfy_cfg.topic

\* C16: a publish with a topic override is queued for the override topic and one
\* without for the configured topic, the rest of the configuration being the server's;
\* the server's configuration never changes; and a queued notification stays as it was
\* queued until the worker takes it and calls the transport with it, so that each is
\* delivered to the topic of its own call, in any interleaving.
C16_TopicOverrideIsPerCall ==
  [][/\ ntfy_cfg' = ntfy_cfg
     /\ wpc' = "send" => (cur' = cur /\ cur.id # 0)
     /\ \/ q' = q
        \/ q # <<>> /\ q' = Tail(q) /\ cur' = Head(q)
        \/ Len(q') = Len(q) + 1 /\ SubSeq(q', 1, Len(q)) = q
     /\ accepted' # accepted
          => \A a \in PublishInputs :
               \/ /\ q'[Len(q')].cfg.topic = call_topic(a)
                  /\ [q'[Len(q')].cfg EXCEPT !.topic = ntfy_cfg.topic] = ntfy_cfg
               \/ ~_tool_publish(a)]_vars

\* a notification for the override topic t2 waits in the queue in front of one for the
\* configured topic t1, published after it, while an earlier delivery has finished
C16_Witness ==
  /\ Len(q) = 2
  /\ q[1].cfg.topic = <<"t2">>
  /\ q[2].cfg.topic = <<"t1">>
  /\ ntfy_cfg.topic = <<"t1">>
  /\ Len(finished) >= 1

(* ---------------- dry-run mode and the counters ---------------- *)

\* C17: in dry-run mode no transport call reaches the network, and every item the
\* worker processes is recorded as a success: sent_ok goes up by one with each, sent_err
\* stays as it was, and the worker thread lives on.
C17_DryRunNoNetworkAllSuccess ==
  /\ []((ntfy_cfg # None /\ ntfy_cfg.dry_run)
          => /\ \A i \in 1..Len(finished) : finished[i].out = "ok" /\ ~finished[i].net
             /\ stats.sent_ok = Len(finished)
             /\ stats.sent_err = 0
             /\ wpc # "dead")
  /\ [][(ntfy_cfg # None /\ ntfy_cfg.dry_run /\ Len(finished') = Len(finished) + 1)
          => (stats'.sent_ok = stats.sent_ok + 1 /\ stats'.sent_err = stats.sent_err)]_vars

\* in dry-run mode the worker has processed two items, the second after a third was
\* queued
C17_Witness ==
  /\ ntfy_cfg # None
  /\ ntfy_cfg.dry_run
  /\ stats.sent_ok = 2
  /\ Len(accepted) = 3

\* C18: sent_ok and sent_err never decrease across any step (publish, enable, disable,
\* status, worker step, close).
C18_CountersMonotonic ==
  [][stats'.sent_ok >= stats.sent_ok /\ stats'.sent_err >= stats.sent_err]_vars

\* both counters have moved, and close() has run to its end
C18_Witness ==
  /\ stats.sent_ok >= 1
  /\ stats.sent_err >= 1
  /\ stats.last_success_at > stats.last_error_at
  /\ cpc = "closed"

(* ---------------- shutdown ---------------- *)

\* the worker thread is scheduled, its transport call returns (urlopen has a timeout),
\* and a close() that has begun runs on: its waits are bounded by deadlines
Fairness ==
  /\ WF_vars(WorkerLoop)
  /\ WF_vars(WorkerGet)
  /\ WF_vars(WorkerCheck)
  /\ WF_vars(WorkerSend)
  /\ WF_vars(CloseStop)
  /\ WF_vars(ClosePut)
  /\ WF_vars(CloseJoin)

\* a configured, live server started with the forced enable override on
InitLive == Init /\ forced_enabled = "true"

SpecLive == InitLive /\ [][Next]_vars /\ Fairness

\* the thread of _run is over: it left the loop, or an exception ended it
worker_over == wpc \in {"exited", "dead"}

\* C19: once close() has been called, from whatever state (queue empty, partly filled
\* or full, worker idle or in a transport call), the call returns and the worker thread
\* eventually leaves its loop: it is never left blocked on an empty queue.
C19_CloseTerminatesWorker ==
  /\ (cpc = "close_stop") ~> (cpc = "closed")
  /\ (cpc = "close_stop") ~> worker_over

\* close() has returned and the worker has left its loop on the stop flag, with a
\* notification still in the queue
C19_Witness ==
  /\ cpc = "closed"
  /\ wpc = "exited"
  /\ \E i \in 1..Len(q) : q[i].id # 0

(* ---------------- the transport under caller-supplied headers ---------------- *)

\* header mappings a caller of enqueue_with_cfg / _ntfy_publish can pass: the kind
\* _tool_publish builds, and the same with an Authorization header under several
\* spellings of the name
CallerHeaders ==
  LET built == {<<"X-Title", <<"b">> >>, <<"X-Priority", <<"low">> >>}
      evil == <<"Basic ", "evil">>
  IN { built,
       built \cup {<<"Authorization", evil>>},
       built \cup {<<"authorization", evil>>},
       built \cup {<<"AUTHORIZATION", evil>>},
       built \cup {<<"authorization", evil>>, <<"AUTHORIZATION", <<"Bearer ", "evil2">> >>} }

\* configurations with a token, with a user name and password, with a user name alone,
\* and without credentials
TransportCfgs ==
  { NtfyConfig(<<"t1">>, <<"tk">>, <<"u">>, <<"pw">>, FALSE),
    NtfyConfig(<<"t1">>, <<>>, <<"u">>, <<"pw">>, FALSE),
    NtfyConfig(<<"t1">>, <<>>, <<"u">>, <<>>, FALSE),
    NtfyConfig(<<"t1">>, <<>>, <<>>, <<>>, FALSE) }

\* the worker starts with items in its queue that carry the caller's headers
InitTransport ==
  /\ enabled_state = TRUE
  /\ forced_enabled = "unset"
  /\ ntfy_cfg \in TransportCfgs
  /\ forced_sequence_id = <<>>
  /\ sequence_ids = {}
  /\ \E n \in 1..max_queue : \E hs \in [1..n -> CallerHeaders] :
       /\ q = [i \in 1..n |-> [id |-> i, cfg |-> ntfy_cfg, headers |-> hs[i], message |-> <<"m">>]]
       /\ accepted = [i \in 1..n |-> i]
       /\ nextId = n
  /\ stop = FALSE
  /\ stats = DeliveryStats0
  /\ wpc = "loop"
  /\ cur = NoItem
  /\ cpc = "idle"
  /\ result = NoResult
  /\ dropped = {}
  /\ started = <<>>
  /\ finished = <<>>
  /\ discarded = {}
  /\ last_set = "none"

NextTransport ==
  \/ WorkerLoop
  \/ WorkerGet
  \/ WorkerCheck
  \/ WorkerSend

SpecTransport == InitTransport /\ [][NextTransport]_vars

\* what the configuration alone asks for: Bearer with the token, else Basic with the
\* encoded username:password when both are set, else no Authorization header
authorization_of_config(cfg) ==
  IF cfg.token # <<>> THEN {<<"Bearer ">> \o cfg.token}
  ELSE IF cfg.username # <<>> /\ cfg.password # <<>>
       THEN {<<"Basic ", "b64(">> \o cfg.username \o <<":">> \o cfg.password \o <<")">>}
       ELSE {}

\* C20: whenever the worker calls the transport, the Authorization header of the request
\* is the one the configuration asks for and nothing else, whatever Authorization
\* header, under whatever spelling of the name, the caller's mapping holds.
C20_AuthorizationFromConfigOnly ==
  wpc = "send" =>
    sent_values(cur.cfg, cur.headers, "Authorization") = authorization_of_config(cur.cfg)

(* ---------------- the notification builder on many arguments ---------------- *)

\* publish arguments that exercise the tag, status and priority rules and the
\* four checks that raise ValueError
ArgInputs ==
  { NoArgs,
    [NoArgs EXCEPT !.status = Str(<<"ERROR", " ">>),
                   !.tags = Str(<<"x", ",", " ", ",", "copilot", ",", " ", "x">>)],
    [NoArgs EXCEPT !.tags = List(<<Str(<<"a", ",", "b">>), Str(<<" ", "a">>)>>)],
    [NoArgs EXCEPT !.status = Str(<<"success">>), !.repo = Str(<<"r">>),
                   !.tags = List(<<Str(<<"x">>), Str(<<"repo:r">>), Str(<<"x">>)>>)],
    [NoArgs EXCEPT !.status = Str(<<"ERROR">>), !.priority = Int_(3)],
    [NoArgs EXCEPT !.status = Str(<<"info">>), !.priority = Str(<<" ", "MAX">>)],
    [NoArgs EXCEPT !.status = Str(<<"warning">>), !.update = Bool(FALSE)],
    [NoArgs EXCEPT !.status = Str(<<"bogus">>)],
    [NoArgs EXCEPT !.tags = Int_(3)],
    [NoArgs EXCEPT !.tags = List(<<Str(<<"x">>), Str(<<" ">>)>>)],
    [NoArgs EXCEPT !.priority = Int_(6)],
    [NoArgs EXCEPT !.session = Str(<<" ">>), !.repo = Str(<<"r">>)] }

\* an enabled, configured server without a forced sequence id, observed while the
\* callers publish and the worker has not been scheduled yet
InitArgs ==
  /\ enabled_state = TRUE
  /\ forced_enabled = "unset"
  /\ ntfy_cfg = Cfg(FALSE)
  /\ forced_sequence_id = <<>>
  /\ sequence_ids = {}
  /\ q = <<>>
  /\ stop = FALSE
  /\ stats = DeliveryStats0
  /\ wpc = "loop"
  /\ cur = NoItem
  /\ cpc = "idle"
  /\ result = NoResult
  /\ nextId = 0
  /\ accepted = <<>>
  /\ dropped = {}
  /\ started = <<>>
  /\ finished = <<>>
  /\ discarded = {}
  /\ last_set = "none"

NextArgs ==
  \/ \E args \in ArgInputs : _tool_publish(args)
  \/ PublishReturn

SpecArgs == InitArgs /\ [][NextArgs]_vars

\* the tags a receiver reads from an X-Tags value: the pieces between the commas
tag_list(item) == split_comma(header(item, "X-Tags"), 1, <<>>)

\* the tags that stand for a status
StatusTags == {<<_STATUS_TAG[s]>> : s \in DOMAIN _STATUS_TAG}

\* C21: the tag list of the X-Tags header of every enqueued item has no duplicates,
\* starts with the fixed default tags followed by the status-derived tag, and holds
\* exactly one status-derived tag.
C21_TagsDedupedDefaultsFirst ==
  \A i \in 1..Len(q) :
    q[i].id # 0 =>
      LET ts == tag_list(q[i]) IN
      /\ \A j, k \in 1..Len(ts) : ts[j] = ts[k] => j = k
      /\ Len(ts) >= 3
      /\ ts[1] = <<"copilot">>
      /\ ts[2] = <<"computer">>
      /\ ts[3] \in StatusTags
      /\ Cardinality({j \in 1..Len(ts) : ts[j] \in StatusTags}) = 1

(* ---------------- who writes what ---------------- *)

\* C22: the delivery statistics change only in the worker's step that ends a
\* transport call; the sequence registry and the enabled flag change only in a
\* facade call and never in a worker step; status() changes nothing of the
\* server's state.
C22_FrameConditions ==
  [][/\ stats' # stats =>
          /\ wpc = "send" /\ wpc' = "loop"
          /\ UNCHANGED <<cpc, result, q, stop>>
          /\ UNCHANGED facadeVars
     /\ (sequence_ids' # sequence_ids \/ enabled_state' # enabled_state) =>
          /\ cpc = "idle"
          /\ UNCHANGED workerVars
     /\ (wpc' # wpc \/ cur' # cur) =>
          /\ sequence_ids' = sequence_ids
          /\ enabled_state' = enabled_state
     /\ (result' # result /\ result'.tool = "status") =>
          /\ UNCHANGED <<q, stop, cpc>>
          /\ UNCHANGED facadeVars
          /\ UNCHANGED workerVars]_vars

\* status() has answered on a server whose worker has delivered an item and whose
\* registry holds an entry
C22_Witness ==
  /\ result.tool = "status"
  /\ <<"sentOk", 1>> \in result.structured
  /\ stats.sent_ok >= 1
  /\ sequence_ids # {}
  /\ last_set # "none"

(* ---------------- the outcomes of publish ---------------- *)

\* the outcome the order of the checks gives a publish in the current state:
\* disabled, then not configured, then invalid arguments, then queue full
outcome_of(a) ==
  IF ~_effective_enabled THEN "disabled"
  ELSE IF ntfy_cfg = None THEN "not_configured"
  ELSE IF ~args_valid(a) THEN "invalid"
  ELSE IF Len(q) >= max_queue THEN "queue_full"
  ELSE "accepted"

\* what a caller reads off an answer: the exception, else the reason field, else the
\* configured / enqueued flag
kind_of(r) ==
  IF r.raised THEN "invalid"
  ELSE IF \E p \in r.structured : p[1] = "reason"
  THEN (CHOOSE p \in r.structured : p[1] = "reason")[2]
  ELSE IF <<"configured", FALSE>> \in r.structured THEN "not_configured"
  ELSE IF <<"enqueued", TRUE>> \in r.structured THEN "accepted"
  ELSE "none"

priority_by_status ==
  [progress |-> "low", info |-> "default", success |-> "high", warning |-> "high",
   error |-> "urgent"]

\* C25: an accepted publish without a priority argument carries the X-Priority its
\* status stands for (progress when no status is given): progress low, info default,
\* success high, warning high, error urgent; with a valid priority argument, an
\* integer 1..5 or a named level, X-Priority is that priority whatever the status.
C25_PriorityFromStatusUnlessGiven ==
  [][accepted' # accepted =>
       \A a \in ArgInputs :
         _tool_publish(a) =>
           LET p == a.priority
               sent == header(q'[Len(q')], "X-Priority") IN
           /\ p = None => sent = <<priority_by_status[eff_status(a)[1]]>>
           /\ p.t = "int" => (p.v \in 1..5 /\ sent = itoa(p.v))
           /\ nonBlankStr(p) => sent = lower(strip(p.v))]_vars

\* two error notifications are queued, one with the priority of its status and one
\* with the priority its caller gave
C25_Witness ==
  \E i, j \in 1..Len(q) :
    /\ <<"rotating_light">> = tag_list(q[i])[3]
    /\ header(q[i], "X-Priority") = <<"urgent">>
    /\ <<"rotating_light">> = tag_list(q[j])[3]
    /\ header(q[j], "X-Priority") = <<"3">>

(* ---------------- enable() and disable() ---------------- *)

returned_calls == {i \in 1..Len(finished) : finished[i].out = "ok"}
handled_failures == {i \in 1..Len(finished) : finished[i].out \in HandledErrors}

\* C27: sent_ok is the number of transport calls that returned and sent_err the
\* number that raised a handled error, so their sum is the number of processed
\* items and each processed item is counted once in one counter; an item still in
\* the queue, discarded at shutdown or dropped on a full queue is counted in neither.
C27_CountersCountProcessedItems ==
  /\ stats.sent_ok = Cardinality(returned_calls)
  /\ stats.sent_err = Cardinality(handled_failures)
  /\ stats.sent_ok + stats.sent_err = Cardinality(returned_calls \cup handled_failures)
  /\ \A i \in 1..Len(finished) :
       /\ finished[i].id \notin dropped \cup discarded
       /\ ~in_queue(finished[i].id)
       /\ \A j \in 1..Len(finished) : finished[j].id = finished[i].id => j = i

\* one delivery succeeded, one failed with a handled error, and a third item was
\* discarded at shutdown
C27_Witness ==
  /\ stats.sent_ok = 1
  /\ stats.sent_err = 1
  /\ discarded # {}
  /\ Len(finished) = 2

(* ---------------- a rejected publish ---------------- *)

\* C28: a publish rejected for its arguments (session, status, tags or priority)
\* raises InvalidArgument and leaves the queue, the sequence registry, the
\* statistics and the enabled flag as they were: nothing is registered or enqueued.
C28_InvalidArgumentChangesNothing ==
  [][\A a \in ArgInputs :
       (~args_valid(a) /\ _tool_publish(a)) =>
         /\ result' = invalid_argument_result
         /\ UNCHANGED <<q, sequence_ids, stats, enabled_state>>
         /\ UNCHANGED publishHist
         /\ cpc' = "idle"]_vars

\* a publish was rejected for its arguments on a server with an item in the queue
\* and an entry in the registry
C28_Witness ==
  /\ result = invalid_argument_result
  /\ Len(q) = 1
  /\ Cardinality(sequence_ids) = 1
  /\ Len(accepted) = 1

(* ---------------- the registry and a full queue ---------------- *)

\* a publish with an explicit sequenceId
ExplicitIdArgs == [NoArgs EXCEPT !.sequenceId = Str(<<"sid1">>)]

\* publish arguments that go through the registry, and the ways past it: update
\* false, an explicit sequenceId (a forced id comes with the environment)
RegistryInputs ==
  { NoArgs,
    [NoArgs EXCEPT !.update = Bool(FALSE)],
    ExplicitIdArgs }

\* a dry-run server whose queue is full of publishes made with an explicit sequenceId,
\* none of which the worker has taken yet; these earlier items have the ids
\* -max_queue..-1, nextId counts the calls made from here on
InitRegistry ==
  /\ enabled_state = TRUE
  /\ forced_enabled = "unset"
  /\ ntfy_cfg = Cfg(TRUE)
  /\ forced_sequence_id \in {<<>>, <<"F">>}
  /\ sequence_ids = {}
  /\ q = [i \in 1..max_queue |->
            [id |-> i - max_queue - 1, cfg |-> eff_cfg(Cfg(TRUE), ExplicitIdArgs),
             headers |-> headers_of(ExplicitIdArgs, <<"sid1">>),
             message |-> message_of(ExplicitIdArgs)]]
  /\ accepted = [i \in 1..max_queue |-> i - max_queue - 1]
  /\ nextId = 0
  /\ stop = FALSE
  /\ stats = DeliveryStats0
  /\ wpc = "loop"
  /\ cur = NoItem
  /\ cpc = "idle"
  /\ result = NoResult
  /\ dropped = {}
  /\ started = <<>>
  /\ finished = <<>>
  /\ discarded = {}
  /\ last_set = "none"

NextRegistry ==
  \/ \E args \in RegistryInputs : _tool_publish(args)
  \/ PublishReturn
  \/ _tool_status
  \/ WorkerLoop
  \/ WorkerGet
  \/ WorkerCheck
  \/ WorkerSend

SpecRegistry == InitRegistry /\ [][NextRegistry]_vars

\* C29: a publish that passed the checks, with update not false, no explicit
\* sequenceId and no forced id, leaves an entry for its key in the registry, also
\* when it is dropped on a full queue; entries are never changed or removed, so an
\* accepted publish for a key that has an entry carries the token of that entry; a
\* publish with update false, with an explicit sequenceId or under a forced id
\* leaves the registry as it was.
C29_DroppedPublishRegisters ==
  /\ [][/\ \A kt \in sequence_ids : kt \in sequence_ids'
        /\ nextId' # nextId =>
             \A a \in RegistryInputs :
               _tool_publish(a) =>
                 LET key == sequence_key(a) IN
                 IF uses_registry(a)
                 THEN /\ \E kt \in sequence_ids' : kt[1] = key
                      /\ (\E kt \in sequence_ids : kt[1] = key) => sequence_ids' = sequence_ids
                      /\ accepted' # accepted =>
                           <<key, header(q'[Len(q')], "X-Sequence-ID")>> \in sequence_ids'
                 ELSE sequence_ids' = sequence_ids]_vars
  /\ [](\A k1 \in sequence_ids : \A k2 \in sequence_ids : k1[1] = k2[1] => k1 = k2)

\* the first publish was dropped on the full queue, status() then counted one
\* registry entry, and the second publish, accepted and not yet answered, is in the
\* queue with the token of that entry
C29_Witness ==
  /\ dropped = {1}
  /\ nextId = 2
  /\ cpc = "pub_ret"
  /\ result.tool = "status"
  /\ <<"sequenceIdCount", 1>> \in result.structured
  /\ Cardinality(sequence_ids) = 1
  /\ \E i \in 1..Len(q) :
       /\ q[i].id = 2
       /\ \E kt \in sequence_ids : kt[2] = header(q[i], "X-Sequence-ID")

(* ---------------- items and the wake-up item ---------------- *)

\* publish arguments with blank or absent title and message fields
MessageInputs ==
  { NoArgs,
    [NoArgs EXCEPT !.title = Str(<<" ">>), !.message = Str(<<>>)],
    [NoArgs EXCEPT !.message = Str(<<" ", "\n">>), !.result = Str(<<" ">>),
                   !.details = Str(<<>>), !.next = Str(<<"\t">>)],
    [NoArgs EXCEPT !.title = Str(<<>>), !.stage = Int_(0), !.total = Int_(0)],
    [NoArgs EXCEPT !.session = Str(<<" ", "b", " ">>), !.message = Int_(0),
                   !.title = Bool(FALSE)] }

\* what the worker's test for the wake-up item looks at: a header mapping with
\* X-Title, X-Priority and X-Tags, each with a value, and a body that is not empty
well_formed(item) ==
  /\ \A name \in {"X-Title", "X-Priority", "X-Tags"} :
       has_header(item, name) /\ header(item, name) # <<>>
  /\ item.message # <<>>
  /\ ~(item.headers = {} /\ item.message = <<>>)

\* C30: every item publish has put in the queue has a header mapping with X-Title,
\* X-Priority and X-Tags and a body that is not empty, for blank or absent title and
\* message arguments too, so the worker never takes it for the wake-up item; the
\* wake-up item is in the queue only after the stop flag is set, is never handed to
\* the transport and never counted in the statistics.
C30_ItemsAreNeverWakeUps ==
  /\ \A i \in 1..Len(q) :
       IF q[i].id # 0 THEN well_formed(q[i])
       ELSE stop /\ q[i].headers = {} /\ q[i].message = <<>>
  /\ (cur # NoItem /\ cur.id # 0) => well_formed(cur)
  /\ nextId = 0 =>
       \A a \in MessageInputs \cup PublishInputs :
         args_valid(a) =>
           well_formed([id |-> 1, headers |-> headers_of(a, <<>>), message |-> message_of(a)])
  /\ wpc = "send" => (cur.id # 0 /\ well_formed(cur))
  /\ \A i \in 1..Len(started) : started[i].id # 0
  /\ \A i \in 1..Len(finished) : finished[i].id # 0
  /\ stats.sent_ok + stats.sent_err <= Len(finished)

\* close() has put the wake-up item behind an accepted item, the worker has
\* delivered an earlier item and has exited
C30_Witness ==
  /\ \E i \in 1..Len(q) : q[i].id = 0
  /\ \E i \in 1..Len(q) : q[i].id # 0
  /\ Len(finished) >= 1
  /\ wpc = "exited"
  /\ cpc = "closed"

====
